---- MODULE Spec2Model ----
(***************************************************************************)
(* SecureStdioTransport and RateLimiter of mcp-server-for-intercom.        *)
(*                                                                         *)
(* Time is the value of Date.now().  The program's time constants are      *)
(* scaled down to a few clock units so that every window, timeout and      *)
(* timer period can elapse inside a finite run; the source values are      *)
(* given next to each definition.  The token count of the limiter is a     *)
(* fraction in the source (maxTokens / refillInterval tokens per ms); it   *)
(* is kept here exactly, as a count of 1/refillInterval-ths of a token.    *)
(* The 5000 ms period of the health-check timer is a sixtieth of            *)
(* CONNECTION_TIMEOUT and lies below the clock unit: once its interval is  *)
(* set, a health check can run at every clock value.                       *)
(***************************************************************************)
EXTENDS Integers, Sequences, FiniteSets, TLC

\* ------------------------------------------------------------------ bounds

\* Spec, every operation: Date.now() runs over 0..MaxTime, with MaxChunks
\* inbound chunks (stdin 'data' events and direct calls) and MaxStarts calls
\* of start() per run.
MaxTime == 3
MaxChunks == 1
MaxStarts == 2
\* SpecLimiter, the rate gate over time: the clock and the chunks per run.
LimiterMaxTime == 5
\* SpecInbound, the inbound path: the clock, the chunks and the calls of
\* start() per run.
InboundMaxTime == 1
InboundMaxChunks == 2
InboundMaxStarts == 2

\* SpecTokens, the tokens malformed chunks take: the clock.
TokensMaxTime == 1

\* --------------------------------------------------------------- constants

\* constants.ts: 5 * 1024 * 1024 bytes.
MAX_MESSAGE_SIZE == 5 * 1024 * 1024
\* constants.ts: 60 in the source, scaled.
MAX_REQUESTS_PER_MINUTE == 2
\* new RateLimiter(MAX_REQUESTS_PER_MINUTE, 60000): 60000 ms in the source, scaled.
REFILL_INTERVAL == 3
\* constants.ts: 300000 ms in the source, scaled.
CONNECTION_TIMEOUT == 2

\* IntercomService: retries after the first attempt, and the base delay in ms.
MAX_RETRIES == 3
RETRY_DELAY == 1000

\* SpecTokens: chunks per run, one more than the bucket holds.
TokensMaxChunks == MAX_REQUESTS_PER_MINUTE + 1

\* SpecLimiter: chunks per run, enough to overfill two windows.
LimiterMaxChunks == 2 * MAX_REQUESTS_PER_MINUTE + 1

Min(a, b) == IF a <= b THEN a ELSE b

\* ------------------------------------------------------------ wire payloads

\* The texts a chunk may carry (data.toString()).
TextRequest  == "{\"jsonrpc\":\"2.0\",\"method\":\"test\"}"
TextOldVersion == "{\"jsonrpc\":\"1.0\",\"method\":\"test\"}"
TextFiller   == "xxxx"

Texts == {TextRequest, TextOldVersion, TextFiller}

\* JSON.parse on the texts above: ok = FALSE is a SyntaxError.
JSONparse(text) ==
    CASE text = TextRequest ->
           [ok |-> TRUE, value |-> [jsonrpc |-> "2.0", method |-> "test"]]
      [] text = TextOldVersion ->
           [ok |-> TRUE, value |-> [jsonrpc |-> "1.0", method |-> "test"]]
      [] OTHER -> [ok |-> FALSE, value |-> [jsonrpc |-> "none"]]

\* Mutant: the schema accepts any value of jsonrpc.
MessageSchemaParseAnyVersion(value) ==
    IF "jsonrpc" \in DOMAIN value
    THEN [ok |-> TRUE, value |-> value]
    ELSE [ok |-> FALSE, value |-> value]

\* MessageSchema.parse on the decoded values above: the version literal.
\* ok = FALSE is a ZodError.
MessageSchemaParse(value) ==
    IF "jsonrpc" \in DOMAIN value /\ value.jsonrpc = "2.0"
    THEN [ok |-> TRUE, value |-> value]
    ELSE [ok |-> FALSE, value |-> value]

\* ------------------------------------------------------ messages in full

\* The JavaScript values a field of a message may hold: a type tag and the
\* value as the language prints it.
Undefined == [t |-> "undefined", v |-> ""]
Null == [t |-> "null", v |-> "null"]
Number(v) == [t |-> "number", v |-> v]
String(v) == [t |-> "string", v |-> v]
Object(v) == [t |-> "object", v |-> v]

\* The keys of MessageSchema, in the order of its shape.
Fields == <<"jsonrpc", "id", "method", "params", "result", "error">>
FieldSet == {Fields[i] : i \in DOMAIN Fields}

ErrorObject == Object("{\"code\":1,\"message\":\"m\"}")

\* The objects handed to MessageSchema.parse: a value per key, Undefined
\* for a key the object does not have.
JSMessages ==
    [jsonrpc : {String("2.0"), String("1.0")},
     id : {Undefined, Number("1"), Number("Infinity"), String("a"), Null},
     method : {Undefined, String("ping")},
     params : {Undefined, Object("{}")},
     result : {Undefined, Number("0"), Number("NaN"), Null},
     error : {Undefined, ErrorObject}]

\* z.number(): a number that is not NaN; Infinity passes.
ZodNumber(value) == value.t = "number" /\ value.v # "NaN"

\* MessageSchema.parse(value), field by field: ok = FALSE is a ZodError.
MessageSchemaParseFields(value) ==
    [ok |-> /\ value.jsonrpc = String("2.0")
            /\ value.id = Undefined \/ ZodNumber(value.id) \/ value.id.t = "string"
            /\ value.method.t \in {"undefined", "string"}
            /\ value.params.t \in {"undefined", "object"}
            /\ value.error \in {Undefined, ErrorObject},
     value |-> value]

\* JSON.stringify of one value: the token of the JSON text.  A number that
\* is not finite is written as null.
JSONstringifyValue(value) ==
    CASE value.t = "number" ->
           IF value.v \in {"Infinity", "-Infinity", "NaN"}
           THEN [token |-> "null", text |-> "null"]
           ELSE [token |-> "number", text |-> value.v]
      [] value.t = "string" -> [token |-> "string", text |-> "\"" \o value.v \o "\""]
      [] value.t = "null" -> [token |-> "null", text |-> "null"]
      [] value.t = "object" -> [token |-> "object", text |-> value.v]

\* JSON.stringify of a message: the members <<key, token>> of the JSON
\* text, a key whose value is undefined left out.
JSONstringifyFields(message) ==
    LET keys == SelectSeq(Fields, LAMBDA f : message[f] # Undefined)
    IN [i \in DOMAIN keys |-> <<keys[i], JSONstringifyValue(message[keys[i]])>>]

\* JSON.parse of one token.
JSONparseValue(token) ==
    CASE token.token = "null" -> Null
      [] token.token = "number" -> Number(token.text)
      [] token.token = "string" ->
           CHOOSE value \in {String("2.0"), String("1.0"), String("a"),
                             String("ping")} :
               "\"" \o value.v \o "\"" = token.text
      [] token.token = "object" -> Object(token.text)

\* JSON.parse of the members of a JSON text: an object with the keys of the
\* text.
JSONparseFields(wire) ==
    [f \in FieldSet |->
        IF \E i \in DOMAIN wire : wire[i][1] = f
        THEN JSONparseValue(wire[CHOOSE i \in DOMAIN wire : wire[i][1] = f][2])
        ELSE Undefined]

\* No message is on its way.
NoRoundTrip ==
    [stage |-> "none", message |-> <<>>, wire |-> <<>>,
     decoded |-> [ok |-> FALSE, value |-> <<>>]]

\* ------------------------------------------------------------ makeRequest

\* How one fetch of makeRequest ends: a 2xx response with a JSON body, a
\* 429, another status that is not 2xx, a rejected fetch, or a 2xx response
\* whose body response.json() rejects.
FetchOutcomes == {"success", "429", "httpError", "networkError", "invalidBody"}

\* No call of makeRequest has been made.
NoRequest == [state |-> "idle", retryCount |-> 0, outcomes |-> <<>>, delay |-> 0]

\* Math.pow(2, n).
RECURSIVE Pow2(_)
Pow2(n) == IF n = 0 THEN 1 ELSE 2 * Pow2(n - 1)

\* -------------------------------------------------------------- RateLimiter

\* new RateLimiter(maxTokens, refillInterval) at time t: a full bucket.
\* tokens counts 1/REFILL_INTERVAL-ths of a token.
NewRateLimiter(t) ==
    [tokens |-> MAX_REQUESTS_PER_MINUTE * REFILL_INTERVAL, lastRefill |-> t]

\* Mutant: the refilled count is not clamped to maxTokens.
refillUnclamped(rl, t) ==
    LET elapsedMs == t - rl.lastRefill IN
    IF elapsedMs > 0
    THEN [tokens |-> rl.tokens + elapsedMs * MAX_REQUESTS_PER_MINUTE,
          lastRefill |-> t]
    ELSE rl

\* Mutant: tokens are added a whole window at a time, while lastRefill
\* moves on every call.
refillWholeWindows(rl, t) ==
    LET elapsedMs == t - rl.lastRefill IN
    IF elapsedMs > 0
    THEN [tokens |-> IF elapsedMs >= REFILL_INTERVAL
                     THEN MAX_REQUESTS_PER_MINUTE * REFILL_INTERVAL
                     ELSE rl.tokens,
          lastRefill |-> t]
    ELSE rl

\* RateLimiter.refill at time t: elapsedMs * tokenRate tokens are added,
\* clamped to maxTokens, and only when time has passed.
refill(rl, t) ==
    LET elapsedMs == t - rl.lastRefill IN
    IF elapsedMs > 0
    THEN [tokens |-> Min(rl.tokens + elapsedMs * MAX_REQUESTS_PER_MINUTE,
                         MAX_REQUESTS_PER_MINUTE * REFILL_INTERVAL),
          lastRefill |-> t]
    ELSE rl

\* Mutant: a token is taken only when more than one is left.
tryAcquireStrict(rl, t) ==
    LET r == refill(rl, t) IN
    IF r.tokens > REFILL_INTERVAL
    THEN [rl |-> [r EXCEPT !.tokens = r.tokens - REFILL_INTERVAL], ok |-> TRUE]
    ELSE [rl |-> r, ok |-> FALSE]

\* Mutant: a token is taken as soon as any fraction of one is left.
tryAcquireOverdraws(rl, t) ==
    LET r == refill(rl, t) IN
    IF r.tokens > 0
    THEN [rl |-> [r EXCEPT !.tokens = r.tokens - REFILL_INTERVAL], ok |-> TRUE]
    ELSE [rl |-> r, ok |-> FALSE]

\* RateLimiter.tryAcquire at time t: the limiter after the call and its answer.
tryAcquire(rl, t) ==
    LET r == refill(rl, t) IN
    IF r.tokens >= REFILL_INTERVAL
    THEN [rl |-> [r EXCEPT !.tokens = r.tokens - REFILL_INTERVAL], ok |-> TRUE]
    ELSE [rl |-> r, ok |-> FALSE]

\* ------------------------------------------------------------------- state

VARIABLES
    now,              \* Date.now()
    rateLimiter,      \* this.rateLimiter: [tokens, lastRefill]
    connectionActive, \* this.connectionActive
    messageQueue,     \* this.messageQueue: <<[message, timestamp], ...>>
    lastHealthCheck,  \* this.lastHealthCheck
    callbacks,        \* which of onmessage, onerror, onclose are set
    dataListeners,    \* listener triples start() has put on process.stdin
    healthTimers,     \* interval timers startHealthCheck has set
    stdinEnded,       \* process.stdin has emitted 'end'
    inflight,         \* handleIncomingMessage calls suspended in await this.onmessage(...)
    received,         \* chunks handled so far; a chunk's number is its arrival order
    dispatched,       \* history: chunk numbers in the order onmessage was invoked
    admitted,         \* history: the times at which tryAcquire answered true
    written,          \* what the last step gave process.stdout.write
    calls,            \* callbacks the last step invoked, in order: <<name, argument>>
    last,             \* the last operation, its input and how each call of it ended
    roundTrip,        \* a message on its way through serializer, parser and validator
    request           \* a call of IntercomService.makeRequest and its retries

vars == <<now, rateLimiter, connectionActive, messageQueue, lastHealthCheck,
          callbacks, dataListeners, healthTimers, stdinEnded, inflight, received,
          dispatched, admitted, written, calls, last, roundTrip,
          request>>

\* Byte lengths of inbound chunks and of serialized outbound messages.
Lengths == {MAX_MESSAGE_SIZE, MAX_MESSAGE_SIZE + 1}

\* What a call of this.onmessage does: return, throw, or return a promise
\* that settles after other events.
CallbackOutcomes == {"returns", "throws", "pending"}
\* The outcomes of a callback that completes synchronously.
SyncOutcomes == {"returns", "throws"}

\* An operation: its name, the byte length it was given, the connection
\* state it found and how each call of it ended.
Op(op, length, results) ==
    [op |-> op, length |-> length, open |-> connectionActive, results |-> results]

\* The state after construction: connectionActive = false, an empty queue,
\* lastHealthCheck = Date.now(), a full RateLimiter; no listener, no timer.
\* The host sets the three callbacks (Server.connect) or none (the tests).
Init ==
    /\ now = 0
    /\ rateLimiter = NewRateLimiter(0)
    /\ connectionActive = FALSE
    /\ messageQueue = <<>>
    /\ lastHealthCheck = 0
    /\ callbacks \in {{}, {"onmessage", "onerror", "onclose"}}
    /\ dataListeners = 0
    /\ healthTimers = 0
    /\ stdinEnded = FALSE
    /\ inflight = {}
    /\ received = 0
    /\ dispatched = <<>>
    /\ admitted = <<>>
    /\ written = <<>>
    /\ calls = <<>>
    /\ last = [op |-> "new", length |-> 0, open |-> FALSE, results |-> <<>>]
    /\ roundTrip = NoRoundTrip
    /\ request = NoRequest

\* ------------------------------------------------------- private helpers

\* Mutant: handleError invokes onerror twice.
handleErrorTwice(cs, error) ==
    IF "onerror" \in callbacks
    THEN Append(Append(cs, <<"onerror", error>>), <<"onerror", error>>)
    ELSE cs

\* handleError: the error goes to onerror when one is set.
handleError(cs, error) ==
    IF "onerror" \in callbacks THEN Append(cs, <<"onerror", error>>) ELSE cs

\* cleanMessageQueue at time t.
cleanMessageQueue(q, t) ==
    SelectSeq(q, LAMBDA item: item.timestamp > t - CONNECTION_TIMEOUT)

\* The callbacks close() invokes.
closeCalls(cs) ==
    IF "onclose" \in callbacks THEN Append(cs, <<"onclose", "">>) ELSE cs

\* ------------------------------------------------- handleIncomingMessage

\* The chunks of the model: a byte length and the text it decodes to.  The
\* chunk over the limit carries a valid message.
Chunks == [length : {MAX_MESSAGE_SIZE}, text : Texts]
          \cup {[length |-> MAX_MESSAGE_SIZE + 1, text |-> TextRequest]}

\* The part of the state one call of handleIncomingMessage reads and writes,
\* with the callbacks it invoked and how it ended.
Handling ==
    [rateLimiter |-> rateLimiter, messageQueue |-> messageQueue,
     dispatched |-> dispatched, admitted |-> admitted, inflight |-> inflight,
     calls |-> <<>>, errors |-> <<>>, results |-> <<>>]

Ended(h, result) == [h EXCEPT !.results = Append(@, result)]

\* Mutant: a chunk of exactly MAX_MESSAGE_SIZE bytes is refused too.
sizeGateInclusive(data) == data.length >= MAX_MESSAGE_SIZE

\* The size gate: data.length > MAX_MESSAGE_SIZE.
sizeGate(data) == data.length > MAX_MESSAGE_SIZE

\* handleIncomingMessage(data) at time now, up to its return, its throw or
\* its suspension in await this.onmessage(...).  inv names the call: the
\* chunk's number and the listener that made it (0: a direct call).  cb is
\* what the onmessage callback does when it is invoked.
handleIncomingMessage(h, data, inv, cb) ==
    IF sizeGate(data)
    THEN Ended(h, "MessageTooLarge")
    ELSE
    LET acquired == tryAcquire(h.rateLimiter, now) IN
    IF ~acquired.ok
    THEN Ended([h EXCEPT !.rateLimiter = acquired.rl], "RateLimitExceeded")
    ELSE
    LET h1 == [h EXCEPT !.rateLimiter = acquired.rl,
                        !.admitted = Append(@, now)]
        message == JSONparse(data.text)
        validatedMessage == MessageSchemaParse(message.value)
    IN
    IF ~message.ok THEN Ended(h1, "InvalidFormat:SyntaxError")
    ELSE IF ~validatedMessage.ok THEN Ended(h1, "InvalidFormat:ZodError")
    ELSE
    LET h2 == [h1 EXCEPT !.messageQueue =
                   Append(@, [message |-> validatedMessage.value,
                              timestamp |-> now])]
    IN
    IF "onmessage" \notin callbacks
    THEN Ended([h2 EXCEPT !.messageQueue = cleanMessageQueue(@, now)], "ok")
    ELSE
    LET h3 == [h2 EXCEPT !.dispatched = Append(@, inv.chunk),
                         !.calls = Append(@, <<"onmessage", data.text>>)]
    IN
    CASE cb = "returns" ->
           Ended([h3 EXCEPT !.messageQueue = cleanMessageQueue(@, now)], "ok")
      [] cb = "throws" -> Ended(h3, "InvalidFormat:callback")
      [] cb = "pending" ->
           Ended([h3 EXCEPT !.inflight = @ \cup {inv}], "pending")

IsError(result) == result \notin {"ok", "pending"}

\* The 'data' listener of start(): handleIncomingMessage, and handleError
\* on what it throws.  The catch runs in a microtask, after the synchronous
\* part of every listener.
dataListener(h, data, inv, cb) ==
    LET r == handleIncomingMessage(h, data, inv, cb)
        result == r.results[Len(r.results)]
    IN IF IsError(result)
       THEN [r EXCEPT !.errors = handleError(@, result)]
       ELSE r

\* process.stdin emits 'data': the listeners i..n run in the order start()
\* registered them; cbs[i] is what onmessage does for listener i.
RECURSIVE emitData(_, _, _, _, _, _)
emitData(h, data, chunk, i, n, cbs) ==
    IF i > n THEN h
    ELSE emitData(dataListener(h, data, [chunk |-> chunk, listener |-> i], cbs[i]),
                  data, chunk, i + 1, n, cbs)

\* Mutant: a handling that ends in an InvalidFormat error gives the token
\* back.
HandledRefunds(h) ==
    /\ rateLimiter' =
           IF \E i \in DOMAIN h.results :
                  h.results[i] \in {"InvalidFormat:SyntaxError",
                                    "InvalidFormat:ZodError",
                                    "InvalidFormat:callback"}
           THEN rateLimiter ELSE h.rateLimiter
    /\ messageQueue' = h.messageQueue
    /\ dispatched' = h.dispatched
    /\ admitted' = h.admitted
    /\ inflight' = h.inflight
    /\ calls' = h.calls \o h.errors
    /\ written' = <<>>

\* The variables a handling leaves, from its result h.
Handled(h) ==
    /\ rateLimiter' = h.rateLimiter
    /\ messageQueue' = h.messageQueue
    /\ dispatched' = h.dispatched
    /\ admitted' = h.admitted
    /\ inflight' = h.inflight
    /\ calls' = h.calls \o h.errors
    /\ written' = <<>>

\* A caller calls handleIncomingMessage(data) and awaits it.
CallHandleIncomingMessage(data, cb, maxChunks) ==
    /\ received < maxChunks
    /\ \A inv \in inflight : inv.listener # 0
    /\ LET h == handleIncomingMessage(Handling, data,
                    [chunk |-> received + 1, listener |-> 0], cb)
       IN /\ Handled(h)
          /\ last' = Op("handleIncomingMessage", data.length, h.results)
    /\ received' = received + 1
    /\ UNCHANGED <<roundTrip, request>>
    /\ UNCHANGED <<now, connectionActive, lastHealthCheck, callbacks,
                   dataListeners, healthTimers, stdinEnded>>

\* process.stdin emits 'data' with a chunk.
StdinData(data, cbs, maxChunks) ==
    /\ received < maxChunks
    /\ dataListeners > 0
    /\ ~stdinEnded
    /\ LET h == emitData(Handling, data, received + 1, 1, dataListeners, cbs)
       IN /\ Handled(h)
          /\ last' = Op("data", data.length, h.results)
    /\ received' = received + 1
    /\ UNCHANGED <<roundTrip, request>>
    /\ UNCHANGED <<now, connectionActive, lastHealthCheck, callbacks,
                   dataListeners, healthTimers, stdinEnded>>

\* The promise a call of onmessage returned settles: the suspended
\* handleIncomingMessage resumes with cleanMessageQueue, or in its catch.
OnmessageSettles(inv, resolved) ==
    /\ inv \in inflight
    /\ inflight' = inflight \ {inv}
    /\ messageQueue' =
           IF resolved THEN cleanMessageQueue(messageQueue, now) ELSE messageQueue
    /\ LET result == IF resolved THEN "ok" ELSE "InvalidFormat:callback" IN
       /\ calls' = IF inv.listener # 0 /\ ~resolved
                   THEN handleError(<<>>, result) ELSE <<>>
       /\ last' = Op(IF inv.listener = 0 THEN "handleIncomingMessage resumed"
                     ELSE "data resumed", 0, <<result>>)
    /\ written' = <<>>
    /\ UNCHANGED <<roundTrip, request>>
    /\ UNCHANGED <<now, rateLimiter, connectionActive, lastHealthCheck, callbacks,
                   dataListeners, healthTimers, stdinEnded, received, dispatched,
                   admitted>>

\* ------------------------------------------------------ start, close, send

\* Mutant: start() registers the listeners and leaves the flag alone.
startLeavesClosed(maxStarts) ==
    /\ dataListeners < maxStarts
    /\ healthTimers' = healthTimers + 1
    /\ dataListeners' = dataListeners + 1
    /\ calls' = <<>>
    /\ written' = <<>>
    /\ last' = Op("start", 0, <<"ok">>)
    /\ UNCHANGED <<roundTrip, request>>
    /\ UNCHANGED <<now, rateLimiter, connectionActive, messageQueue,
                   lastHealthCheck, callbacks, stdinEnded, inflight, received,
                   dispatched, admitted>>

\* Mutant: start() records the time of the start as the last health check.
startResetsHealthCheck(maxStarts) ==
    /\ dataListeners < maxStarts
    /\ connectionActive' = TRUE
    /\ lastHealthCheck' = now
    /\ healthTimers' = healthTimers + 1
    /\ dataListeners' = dataListeners + 1
    /\ calls' = <<>>
    /\ written' = <<>>
    /\ last' = Op("start", 0, <<"ok">>)
    /\ UNCHANGED <<roundTrip, request>>
    /\ UNCHANGED <<now, rateLimiter, messageQueue, callbacks, stdinEnded,
                   inflight, received, dispatched, admitted>>

\* start(): connectionActive = true, startHealthCheck() sets an interval
\* timer, and the 'data', 'end' and 'error' listeners go on process.stdin.
start(maxStarts) ==
    /\ dataListeners < maxStarts
    /\ connectionActive' = TRUE
    /\ healthTimers' = healthTimers + 1
    /\ dataListeners' = dataListeners + 1
    /\ calls' = <<>>
    /\ written' = <<>>
    /\ last' = Op("start", 0, <<"ok">>)
    /\ UNCHANGED <<roundTrip, request>>
    /\ UNCHANGED <<now, rateLimiter, messageQueue, lastHealthCheck, callbacks,
                   stdinEnded, inflight, received, dispatched, admitted>>

\* Mutant: close() leaves the queue as it is.
closeKeepsQueue ==
    /\ connectionActive' = FALSE
    /\ calls' = closeCalls(<<>>)
    /\ written' = <<>>
    /\ last' = Op("close", 0, <<"ok">>)
    /\ UNCHANGED <<roundTrip, request>>
    /\ UNCHANGED <<now, rateLimiter, messageQueue, lastHealthCheck, callbacks,
                   dataListeners, healthTimers, stdinEnded, inflight, received,
                   dispatched, admitted>>

\* close(): connectionActive = false, the queue emptied, onclose invoked.
close ==
    /\ connectionActive' = FALSE
    /\ messageQueue' = <<>>
    /\ calls' = closeCalls(<<>>)
    /\ written' = <<>>
    /\ last' = Op("close", 0, <<"ok">>)
    /\ UNCHANGED <<roundTrip, request>>
    /\ UNCHANGED <<now, rateLimiter, lastHealthCheck, callbacks, dataListeners,
                   healthTimers, stdinEnded, inflight, received, dispatched,
                   admitted>>

\* The objects send() is given: what the texts decode to.
Messages == {JSONparse(text).value : text \in {t \in Texts : JSONparse(t).ok}}

\* JSON.stringify on the objects above.
JSONstringify(value) == CHOOSE text \in Texts :
    JSONparse(text).ok /\ JSONparse(text).value = value

\* Mutant: send() does not look at connectionActive.
sendResultSkipsConnection(message, length) ==
    IF ~MessageSchemaParse(message).ok THEN "ZodError"
    ELSE IF length > MAX_MESSAGE_SIZE THEN "MessageTooLarge"
    ELSE "ok"

\* Mutant: send() refuses a serialized message of exactly MAX_MESSAGE_SIZE
\* bytes.
sendResultSizeInclusive(message, length) ==
    IF ~MessageSchemaParse(message).ok THEN "ZodError"
    ELSE IF ~connectionActive THEN "NotConnected"
    ELSE IF length >= MAX_MESSAGE_SIZE THEN "MessageTooLarge"
    ELSE "ok"

\* How send(message) ends, where length is the byte length of
\* JSON.stringify(validatedMessage).
sendResult(message, length) ==
    IF ~MessageSchemaParse(message).ok THEN "ZodError"
    ELSE IF ~connectionActive THEN "NotConnected"
    ELSE IF length > MAX_MESSAGE_SIZE THEN "MessageTooLarge"
    ELSE "ok"

\* send(message): one newline-terminated record on stdout, or handleError
\* and the error rethrown.
send(message, length) ==
    /\ LET result == sendResult(message, length) IN
       /\ written' = IF result = "ok"
                     THEN <<<<JSONstringify(MessageSchemaParse(message).value), "\n">>>>
                     ELSE <<>>
       /\ calls' = IF result = "ok" THEN <<>> ELSE handleError(<<>>, result)
       /\ last' = Op("send", length, <<result>>)
    /\ UNCHANGED <<roundTrip, request>>
    /\ UNCHANGED <<now, rateLimiter, connectionActive, messageQueue,
                   lastHealthCheck, callbacks, dataListeners, healthTimers,
                   stdinEnded, inflight, received, dispatched, admitted>>

\* ------------------------------------------------- timer and stream events

\* Mutant: the health check fails as soon as the gap reaches
\* CONNECTION_TIMEOUT.
healthCheckAtTimeout ==
    /\ healthTimers > 0
    /\ LET failed == now - lastHealthCheck >= CONNECTION_TIMEOUT IN
       /\ connectionActive' = IF failed THEN FALSE ELSE connectionActive
       /\ messageQueue' = IF failed THEN <<>> ELSE messageQueue
       /\ calls' = IF failed
                   THEN closeCalls(handleError(<<>>, "HealthCheckFailed"))
                   ELSE <<>>
       /\ last' = Op("healthCheck", 0,
                     <<IF failed THEN "HealthCheckFailed" ELSE "ok">>)
    /\ written' = <<>>
    /\ lastHealthCheck' = now
    /\ UNCHANGED <<roundTrip, request>>
    /\ UNCHANGED <<now, rateLimiter, callbacks, dataListeners, healthTimers,
                   stdinEnded, inflight, received, dispatched, admitted>>

\* The interval callback of startHealthCheck runs, for one of the timers.
healthCheck ==
    /\ healthTimers > 0
    /\ LET failed == now - lastHealthCheck > CONNECTION_TIMEOUT IN
       /\ connectionActive' = IF failed THEN FALSE ELSE connectionActive
       /\ messageQueue' = IF failed THEN <<>> ELSE messageQueue
       /\ calls' = IF failed
                   THEN closeCalls(handleError(<<>>, "HealthCheckFailed"))
                   ELSE <<>>
       /\ last' = Op("healthCheck", 0,
                     <<IF failed THEN "HealthCheckFailed" ELSE "ok">>)
    /\ written' = <<>>
    /\ lastHealthCheck' = now
    /\ UNCHANGED <<roundTrip, request>>
    /\ UNCHANGED <<now, rateLimiter, callbacks, dataListeners, healthTimers,
                   stdinEnded, inflight, received, dispatched, admitted>>

\* Mutant: the 'end' listeners only set the flag: the queue is kept and
\* onclose is not invoked.
StdinEndKeepsQueue ==
    /\ dataListeners > 0
    /\ ~stdinEnded
    /\ stdinEnded' = TRUE
    /\ connectionActive' = FALSE
    /\ calls' = <<>>
    /\ written' = <<>>
    /\ last' = Op("end", 0, <<"ok">>)
    /\ UNCHANGED <<roundTrip, request>>
    /\ UNCHANGED <<now, rateLimiter, messageQueue, lastHealthCheck, callbacks,
                   dataListeners, healthTimers, inflight, received, dispatched,
                   admitted>>

\* process.stdin emits 'end': every 'end' listener calls close().
StdinEnd ==
    /\ dataListeners > 0
    /\ ~stdinEnded
    /\ stdinEnded' = TRUE
    /\ connectionActive' = FALSE
    /\ messageQueue' = <<>>
    /\ calls' = IF "onclose" \in callbacks
                THEN [i \in 1..dataListeners |-> <<"onclose", "">>] ELSE <<>>
    /\ written' = <<>>
    /\ last' = Op("end", 0, <<"ok">>)
    /\ UNCHANGED <<roundTrip, request>>
    /\ UNCHANGED <<now, rateLimiter, lastHealthCheck, callbacks, dataListeners,
                   healthTimers, inflight, received, dispatched, admitted>>

\* process.stdin emits 'error': every 'error' listener calls handleError.
StdinError ==
    /\ dataListeners > 0
    /\ ~stdinEnded
    /\ calls' = IF "onerror" \in callbacks
                THEN [i \in 1..dataListeners |-> <<"onerror", "StreamError">>]
                ELSE <<>>
    /\ written' = <<>>
    /\ last' = Op("error", 0, <<"StreamError">>)
    /\ UNCHANGED <<roundTrip, request>>
    /\ UNCHANGED <<now, rateLimiter, connectionActive, messageQueue,
                   lastHealthCheck, callbacks, dataListeners, healthTimers,
                   stdinEnded, inflight, received, dispatched, admitted>>

\* Time passes.
Tick(maxTime) ==
    /\ now < maxTime
    /\ now' = now + 1
    /\ UNCHANGED <<roundTrip, request>>
    /\ UNCHANGED <<rateLimiter, connectionActive, messageQueue, lastHealthCheck,
                   callbacks, dataListeners, healthTimers, stdinEnded, inflight,
                   received, dispatched, admitted, written, calls, last>>

\* ------------------------------------------------- a message's round trip

\* The variables of the transport.
transport == <<now, rateLimiter, connectionActive, messageQueue,
               lastHealthCheck, callbacks, dataListeners, healthTimers,
               stdinEnded, inflight, received, dispatched, admitted, written,
               calls, last>>

\* The outbound half, as in send(): MessageSchema.parse(message), then
\* JSON.stringify of the validated message.
Serialize(message) ==
    /\ roundTrip.stage # "wire"
    /\ LET validatedMessage == MessageSchemaParseFields(message) IN
       roundTrip' =
           IF validatedMessage.ok
           THEN [NoRoundTrip EXCEPT
                    !.stage = "wire", !.message = message,
                    !.wire = JSONstringifyFields(validatedMessage.value)]
           ELSE [NoRoundTrip EXCEPT !.stage = "refused", !.message = message]
    /\ UNCHANGED <<transport, request>>

\* The inbound half, as in handleIncomingMessage(): JSON.parse of the text,
\* then MessageSchema.parse.
Decode ==
    /\ roundTrip.stage = "wire"
    /\ roundTrip' =
           [roundTrip EXCEPT
               !.stage = "decoded",
               !.decoded = MessageSchemaParseFields(JSONparseFields(roundTrip.wire))]
    /\ UNCHANGED <<transport, request>>

\* ------------------------------------------------------------ makeRequest

\* A caller calls makeRequest(endpoint, ...) with retryCount = 0: fetch is
\* called.
makeRequest ==
    /\ request.state = "idle"
    /\ request' = [NoRequest EXCEPT !.state = "fetching"]
    /\ UNCHANGED <<transport, roundTrip>>

\* The fetch of the current attempt settles.  A 429 with retries left
\* waits Retry-After seconds (1 when the header is absent); what is thrown
\* inside the try (the status error, the rejection of fetch or of
\* response.json()) waits RETRY_DELAY * 2^retryCount with retries left and
\* is thrown to the caller with none.
fetchSettles(outcome) ==
    /\ request.state = "fetching"
    /\ LET attempt == [request EXCEPT !.outcomes = Append(@, outcome)] IN
       request' =
           IF outcome = "success"
           THEN [attempt EXCEPT !.state = "returned"]
           ELSE IF outcome = "429" /\ request.retryCount < MAX_RETRIES
           THEN [attempt EXCEPT !.state = "waiting", !.delay = 1 * 1000]
           ELSE IF request.retryCount < MAX_RETRIES
           THEN [attempt EXCEPT !.state = "waiting",
                                !.delay = RETRY_DELAY * Pow2(request.retryCount)]
           ELSE [attempt EXCEPT !.state = "thrown"]
    /\ UNCHANGED <<transport, roundTrip>>

\* Mutant: the retry is made with the same retryCount.
retrySameCount ==
    /\ request.state = "waiting"
    /\ request' = [request EXCEPT !.state = "fetching", !.delay = 0]
    /\ UNCHANGED <<transport, roundTrip>>

\* The timer of the delay fires: makeRequest(..., retryCount + 1).
retry ==
    /\ request.state = "waiting"
    /\ request' = [request EXCEPT !.state = "fetching", !.delay = 0,
                                  !.retryCount = @ + 1]
    /\ UNCHANGED <<transport, roundTrip>>

\* ------------------------------------------------------------ specification

\* Every operation and event of the transport, with an onmessage callback
\* that completes synchronously.
Next ==
    \/ Tick(MaxTime)
    \/ start(MaxStarts)
    \/ close
    \/ \E data \in Chunks, cb \in SyncOutcomes :
           CallHandleIncomingMessage(data, cb, MaxChunks)
    \/ \E data \in Chunks, cbs \in [1..dataListeners -> SyncOutcomes] :
           StdinData(data, cbs, MaxChunks)
    \/ \E message \in Messages, length \in Lengths : send(message, length)
    \/ healthCheck
    \/ StdinEnd
    \/ StdinError

Spec == Init /\ [][Next]_vars

\* The inbound path, with an onmessage callback that may complete later.
NextInbound ==
    \/ Tick(InboundMaxTime)
    \/ start(InboundMaxStarts)
    \/ close
    \/ \E data \in Chunks, cb \in CallbackOutcomes :
           CallHandleIncomingMessage(data, cb, InboundMaxChunks)
    \/ \E data \in Chunks, cbs \in [1..dataListeners -> CallbackOutcomes] :
           StdinData(data, cbs, InboundMaxChunks)
    \/ \E inv \in inflight, resolved \in BOOLEAN : OnmessageSettles(inv, resolved)

SpecInbound == Init /\ [][NextInbound]_vars

\* The rate gate over time: chunks within the size limit that carry a
\* valid message, handed to handleIncomingMessage before or after start(),
\* with an onmessage callback that returns.
NextLimiter ==
    \/ Tick(LimiterMaxTime)
    \/ start(1)
    \/ CallHandleIncomingMessage(
           [length |-> MAX_MESSAGE_SIZE, text |-> TextRequest], "returns",
           LimiterMaxChunks)

SpecLimiter == Init /\ [][NextLimiter]_vars

\* The tokens chunks take: chunks of every kind handed to
\* handleIncomingMessage, before or after start(), with an onmessage
\* callback that returns or throws.
NextTokens ==
    \/ Tick(TokensMaxTime)
    \/ start(1)
    \/ \E data \in Chunks, cb \in SyncOutcomes :
           CallHandleIncomingMessage(data, cb, TokensMaxChunks)

SpecTokens == Init /\ [][NextTokens]_vars

\* A message goes through the serializer of send() and the parser and
\* validator of handleIncomingMessage().
NextRoundTrip ==
    \/ \E message \in JSMessages : Serialize(message)
    \/ Decode

SpecRoundTrip == Init /\ [][NextRoundTrip]_vars

\* One call of makeRequest against a server that answers as it likes.
\* Every fetch settles and every timer fires.
NextRequest ==
    \/ makeRequest
    \/ \E outcome \in FetchOutcomes : fetchSettles(outcome)
    \/ retry

SpecRequest ==
    /\ Init
    /\ [][NextRequest]_vars
    /\ WF_vars(\E outcome \in FetchOutcomes : fetchSettles(outcome))
    /\ WF_vars(retry)

\* ------------------------------------------------------------------ claims

Capacity == MAX_REQUESTS_PER_MINUTE * REFILL_INTERVAL
OneToken == REFILL_INTERVAL

\* A step that handles an inbound chunk (a direct call or a 'data' event).
ChunkHandled == received' = received + 1

Results(op) == {op.results[i] : i \in DOMAIN op.results}
Invoked(cs) == {cs[i][1] : i \in DOMAIN cs}

\* C1: a chunk longer than MAX_MESSAGE_SIZE fails with MessageTooLarge in
\* every call made for it and leaves the rate limiter (tokens, lastRefill),
\* the queue and the dispatch history as they were, with no call of
\* onmessage; a chunk of exactly MAX_MESSAGE_SIZE bytes never fails with
\* MessageTooLarge.
C1_SizeGate ==
    [][ChunkHandled =>
          IF last'.length > MAX_MESSAGE_SIZE
          THEN /\ Results(last') = {"MessageTooLarge"}
               /\ UNCHANGED <<rateLimiter, messageQueue, dispatched, admitted,
                              inflight>>
               /\ "onmessage" \notin Invoked(calls')
          ELSE /\ last'.length = MAX_MESSAGE_SIZE
               /\ "MessageTooLarge" \notin Results(last')]_vars

\* An oversize chunk was refused on a transport whose bucket is partly used
\* and whose queue holds a message.
C1_Witness ==
    /\ last.op = "data"
    /\ last.length = MAX_MESSAGE_SIZE + 1
    /\ last.results = <<"MessageTooLarge">>
    /\ rateLimiter.tokens < Capacity
    /\ messageQueue # <<>>

\* The admissions at times lo..hi.
AdmittedIn(lo, hi) ==
    Cardinality({i \in DOMAIN admitted : lo <= admitted[i] /\ admitted[i] <= hi})

C3_BurstOfCapacity ==
    [][(ChunkHandled /\ now = 0) =>
          last'.results = <<IF received < MAX_REQUESTS_PER_MINUTE
                            THEN "ok" ELSE "RateLimitExceeded">>]_vars

\* On a started transport, chunk MAX_REQUESTS_PER_MINUTE + 1 of the first
\* instant was refused.
C3_Witness ==
    /\ now = 0
    /\ dataListeners = 1
    /\ received = MAX_REQUESTS_PER_MINUTE + 1
    /\ Len(admitted) = MAX_REQUESTS_PER_MINUTE
    /\ last.op = "handleIncomingMessage"
    /\ last.results = <<"RateLimitExceeded">>

\* C4: a chunk handled REFILL_INTERVAL or more after the last admitted one
\* is admitted, from a bucket that was back at maxTokens.
C4_AdmittedAfterWindow ==
    [][(/\ ChunkHandled
        /\ admitted # <<>>
        /\ now - admitted[Len(admitted)] >= REFILL_INTERVAL) =>
          /\ last'.results = <<"ok">>
          /\ Len(admitted') = Len(admitted) + 1
          /\ rateLimiter'.tokens = Capacity - OneToken]_vars

\* A chunk was admitted a window after the previous admission, with chunks
\* refused before it.
C4_Witness ==
    /\ Len(admitted) >= 2
    /\ received > Len(admitted)
    /\ now = admitted[Len(admitted)]
    /\ admitted[Len(admitted)] - admitted[Len(admitted) - 1] >= REFILL_INTERVAL
    /\ last.results = <<"ok">>

\* C5 as stated: send() on a transport that is not connected fails with
\* NotConnected and writes nothing, whatever the message.
C5_NotConnectedForEveryMessage ==
    [][\A message \in Messages, length \in Lengths :
          (send(message, length) /\ ~connectionActive) =>
              /\ last'.results = <<"NotConnected">>
              /\ written' = <<>>]_vars

\* C5 as amended: send() on a transport that is not connected writes
\* nothing and fails: with NotConnected for a message that conforms to the
\* schema, with the schema's error for one that does not.
C5_SendWhenClosed ==
    [][\A message \in Messages, length \in Lengths :
          (send(message, length) /\ ~connectionActive) =>
              /\ last'.results = <<IF MessageSchemaParse(message).ok
                                   THEN "NotConnected" ELSE "ZodError">>
              /\ written' = <<>>]_vars

\* send() failed with NotConnected on a transport closed after start().
C5_Witness ==
    /\ last.op = "send"
    /\ ~last.open
    /\ dataListeners > 0
    /\ last.results = <<"NotConnected">>
    /\ written = <<>>

\* C6 as stated, for the chunks of the stream: handleIncomingMessage calls
\* never overlap: the 'data' listener handles no chunk while a call it made
\* for an earlier chunk is still suspended in await this.onmessage(...).
C6_NoOverlap ==
    [][(ChunkHandled /\ last'.op = "data") =>
          \A inv \in inflight : inv.listener = 0]_vars

\* C7 as stated: onmessage is invoked in the order the chunks arrived, and
\* for no chunk twice.
C7_DispatchedInOrderOnce ==
    \A i, j \in DOMAIN dispatched : i < j => dispatched[i] < dispatched[j]

\* C8 as stated: a transport that was started and then closed is never
\* Open again.
C8_ClosedIsTerminal ==
    [][(dataListeners > 0 /\ ~connectionActive) => ~connectionActive']_vars

\* The state of the transport itself.
TransportState ==
    <<connectionActive, messageQueue, rateLimiter, lastHealthCheck,
      dataListeners, healthTimers, inflight>>

C11_NoReceiveWhenClosed ==
    [][(ChunkHandled /\ dataListeners > 0 /\ ~connectionActive) =>
          /\ messageQueue' = <<>>
          /\ dispatched' = dispatched
          /\ "onmessage" \notin Invoked(calls')]_vars

\* C12 as stated: once the transport is Closed, the interval callback of
\* the health check delivers no HealthCheckFailed to onerror and does not
\* invoke onclose.
C12_NoHealthCheckWhenClosed ==
    [][(healthCheck /\ ~connectionActive) => calls' = <<>>]_vars

\* C13: a health-check tick on an Open transport, when more than
\* CONNECTION_TIMEOUT has passed since the last recorded health check, gives
\* onerror a HealthCheckFailed error and then closes (Closed, queue empty,
\* onclose invoked after onerror); when at most CONNECTION_TIMEOUT has
\* passed, it changes neither the connection state nor the queue and
\* invokes no callback.
C13_HealthCheckTick ==
    [][(healthCheck /\ connectionActive) =>
          IF now - lastHealthCheck > CONNECTION_TIMEOUT
          THEN /\ ~connectionActive'
               /\ messageQueue' = <<>>
               /\ last'.results = <<"HealthCheckFailed">>
               /\ calls' = IF callbacks = {} THEN <<>>
                           ELSE <<<<"onerror", "HealthCheckFailed">>,
                                  <<"onclose", "">>>>
          ELSE /\ UNCHANGED <<connectionActive, messageQueue>>
               /\ calls' = <<>>]_vars

\* A health check failed on the Open transport that one start() had
\* opened, after a chunk was dispatched at that very instant: onerror, then
\* onclose.
C13_Witness ==
    /\ last.op = "healthCheck"
    /\ last.open
    /\ dataListeners = 1
    /\ dispatched = <<1>>
    /\ admitted = <<now>>
    /\ ~connectionActive
    /\ messageQueue = <<>>
    /\ calls = <<<<"onerror", "HealthCheckFailed">>, <<"onclose", "">>>>

\* C14 as stated: when the onmessage callback throws during
\* handleIncomingMessage, onerror is given the exception, the call does not
\* end with an error for its caller, and the connection state stays as it
\* was.
C14_CallbackExceptionNotRethrown ==
    [][\A data \in Chunks :
          (/\ CallHandleIncomingMessage(data, "throws", MaxChunks)
           /\ "onmessage" \in Invoked(calls')) =>
              /\ "onerror" \in Invoked(calls')
              /\ \A result \in Results(last') : ~IsError(result)
              /\ UNCHANGED connectionActive]_vars

\* The three kinds of failure of handleIncomingMessage: what its caller is
\* given is Error('Message size exceeds limit ...'), Error('Rate limit
\* exceeded') or Error('Invalid message format: ...').
InboundFailures ==
    {"MessageTooLarge", "RateLimitExceeded", "InvalidFormat:SyntaxError",
     "InvalidFormat:ZodError", "InvalidFormat:callback"}

\* C15 as stated: a handleIncomingMessage call that fails with
\* MessageTooLarge, RateLimitExceeded or InvalidFormat leaves the
\* connection state and the queue as they were.
C15_InboundFailureLeavesState ==
    [][(/\ ChunkHandled
        /\ last'.op = "handleIncomingMessage"
        /\ last'.results[1] \in InboundFailures) =>
          UNCHANGED <<connectionActive, messageQueue>>]_vars

\* C16: send(message) writes exactly when the message conforms to the
\* schema, the transport is Open and the serialized length is at most
\* MAX_MESSAGE_SIZE, and then it writes one record: the serialized message
\* and a newline.  Otherwise it fails (schema, NotConnected or
\* MessageTooLarge) and writes nothing.  In both cases the connection
\* state, the queue and the rate limiter stay as they were.
C16_SendWritesExactlyWhenValid ==
    [][\A message \in Messages, length \in Lengths :
          send(message, length) =>
              /\ IF /\ message.jsonrpc = "2.0"
                    /\ connectionActive
                    /\ length <= MAX_MESSAGE_SIZE
                 THEN /\ last'.results = <<"ok">>
                      /\ Len(written') = 1
                      /\ written'[1][2] = "\n"
                      /\ JSONparse(written'[1][1]) = [ok |-> TRUE, value |-> message]
                 ELSE /\ last'.results[1] \in
                             {"ZodError", "NotConnected", "MessageTooLarge"}
                      /\ written' = <<>>
              /\ UNCHANGED <<connectionActive, messageQueue, rateLimiter>>]_vars

\* send() wrote a record of exactly MAX_MESSAGE_SIZE bytes on an Open
\* transport whose queue holds a message.
C16_Witness ==
    /\ last.op = "send"
    /\ last.open
    /\ last.length = MAX_MESSAGE_SIZE
    /\ last.results = <<"ok">>
    /\ written = <<<<TextRequest, "\n">>>>
    /\ messageQueue # <<>>

\* The number of calls of onmessage among the callback calls cs.
OnmessageCalls(cs) == Cardinality({i \in DOMAIN cs : cs[i][1] = "onmessage"})

\* The queue entry handleIncomingMessage pushes for TextRequest at time t.
RequestEntry(t) ==
    [message |-> [jsonrpc |-> "2.0", method |-> "test"], timestamp |-> t]

\* C17: onmessage is only given messages that passed the size gate, the
\* rate gate, decoding and schema validation, in this order.  A chunk over
\* the size limit does not reach the rate gate, and a chunk within it takes
\* a token before it is decoded.  The calls made for a chunk either refuse
\* it, leaving the queue and the dispatch history as they were and invoking
\* no callback (so it is whenever no call was admitted), or push it once
\* per admitted call and then invoke onmessage, when one is set, with the
\* text of a valid message whose entry is in the queue.
C17_OnlyValidatedDispatched ==
    [][ChunkHandled =>
          LET tokensTaken == Len(admitted') - Len(admitted)
              invoked == OnmessageCalls(calls')
              queued == Len(messageQueue')
              refused == /\ UNCHANGED <<messageQueue, dispatched>>
                         /\ invoked = 0
              passed ==
                  /\ tokensTaken > 0
                  /\ queued >= tokensTaken
                  /\ SubSeq(messageQueue', queued - tokensTaken + 1, queued)
                         = [i \in 1..tokensTaken |-> RequestEntry(now)]
                  /\ invoked = IF "onmessage" \in callbacks
                               THEN tokensTaken ELSE 0
                  /\ Len(dispatched') - Len(dispatched) = invoked
                  /\ \A i \in DOMAIN calls' :
                         calls'[i][1] = "onmessage" => calls'[i][2] = TextRequest
          IN /\ IF last'.length > MAX_MESSAGE_SIZE
                THEN UNCHANGED rateLimiter /\ tokensTaken = 0
                ELSE tokensTaken > 0 \/ Results(last') = {"RateLimitExceeded"}
             /\ tokensTaken = 0 => refused
             /\ refused \/ passed]_vars

\* The stream's first chunk took a token and was not dispatched, its second
\* chunk was enqueued and dispatched.
C17_Witness ==
    /\ last.op = "data"
    /\ dataListeners = 1
    /\ received = 2
    /\ Len(admitted) = 2
    /\ dispatched = <<2>>
    /\ Len(messageQueue) = 1
    /\ last.results = <<"ok">>

\* C18 as stated: a message the schema accepts, serialized and then decoded
\* and validated, comes back accepted and equal in every field it has.
C18_RoundTrip ==
    roundTrip.stage = "decoded" =>
        /\ roundTrip.decoded.ok
        /\ \A f \in FieldSet :
               roundTrip.message[f] # Undefined =>
                   roundTrip.decoded.value[f] = roundTrip.message[f]

\* C19 as stated: an 'error' event of process.stdin on an Open transport
\* closes it: Closed, the queue empty, onclose invoked.
C19_StreamErrorCloses ==
    [][(StdinError /\ connectionActive) =>
          /\ ~connectionActive'
          /\ messageQueue' = <<>>
          /\ "onclose" \in callbacks => "onclose" \in Invoked(calls')]_vars

\* C20: an 'end' event of process.stdin on an Open transport closes it:
\* Closed, the queue empty, and onclose, when one is set, invoked; no other
\* callback is.
C20_EndOfInputCloses ==
    [][(StdinEnd /\ connectionActive) =>
          /\ ~connectionActive'
          /\ messageQueue' = <<>>
          /\ Invoked(calls') = callbacks \cap {"onclose"}]_vars

\* End-of-input closed the Open transport that one start() had opened and
\* that had dispatched a chunk: onclose was invoked once.
C20_Witness ==
    /\ last.op = "end"
    /\ last.open
    /\ dataListeners = 1
    /\ dispatched = <<1>>
    /\ ~connectionActive
    /\ messageQueue = <<>>
    /\ calls = <<<<"onclose", "">>>>

\* The token count of the limiter once the time since lastRefill is
\* credited at time t.
Refilled(rl, t) ==
    IF t > rl.lastRefill
    THEN Min(rl.tokens + (t - rl.lastRefill) * MAX_REQUESTS_PER_MINUTE, Capacity)
    ELSE rl.tokens

\* C21: the token count of the limiter stays within 0..capacity, whatever
\* the calls of tryAcquire and the times between them; an admitted call
\* leaves the refilled count less exactly one token, a refused call leaves
\* the refilled count, which is never below the count before the call.
C21_TokensWithinCapacity ==
    [][/\ 0 <= rateLimiter.tokens /\ rateLimiter.tokens <= Capacity
       /\ 0 <= rateLimiter'.tokens /\ rateLimiter'.tokens <= Capacity
       /\ ChunkHandled =>
              /\ rateLimiter'.tokens =
                     IF Len(admitted') > Len(admitted)
                     THEN Refilled(rateLimiter, now) - OneToken
                     ELSE Refilled(rateLimiter, now)
              /\ Len(admitted') = Len(admitted) =>
                     rateLimiter'.tokens >= rateLimiter.tokens]_vars

\* A call was refused at a time when part of a token had been refilled.
C21_Witness ==
    /\ last.op = "handleIncomingMessage"
    /\ last.results = <<"RateLimitExceeded">>
    /\ rateLimiter.lastRefill = now
    /\ now > 0
    /\ 0 < rateLimiter.tokens
    /\ rateLimiter.tokens < OneToken

\* C22 as stated: the rate limiter is changed by nothing but the handling
\* of a chunk, a chunk over the size limit leaves it as it was, and a chunk
\* within the limit causes exactly one admission decision: the limiter is
\* left as one call of tryAcquire leaves it.
C22_OneAdmissionDecisionPerChunk ==
    [][IF ~ChunkHandled \/ last'.length > MAX_MESSAGE_SIZE
       THEN UNCHANGED rateLimiter
       ELSE /\ Len(last'.results) = 1
            /\ rateLimiter'.lastRefill = now
            /\ rateLimiter'.tokens \in {Refilled(rateLimiter, now),
                                        Refilled(rateLimiter, now) - OneToken}]_vars

\* C23 as stated: the sweep at the end of a handling that succeeds removes
\* exactly the entries older than CONNECTION_TIMEOUT and keeps, in their
\* order, the entries whose age is at most CONNECTION_TIMEOUT, an entry of
\* exactly that age included.
C23_SweepKeepsAgeAtMostTimeout ==
    [][(ChunkHandled /\ last'.results = <<"ok">>) =>
          messageQueue' =
              SelectSeq(Append(messageQueue, RequestEntry(now)),
                        LAMBDA item : now - item.timestamp <= CONNECTION_TIMEOUT)]_vars

\* C24 as stated: whatever the calls of start() and close(), at most one
\* set of stream listeners and at most one health-check timer is
\* registered.
C24_RegisteredAtMostOnce ==
    /\ dataListeners <= 1
    /\ healthTimers <= 1

\* C25 as stated: the handling of an inbound chunk, a chunk of the stream
\* included, never gives MessageTooLarge, RateLimitExceeded or an
\* InvalidFormat error to onerror.
C25_InboundFailuresNotToOnerror ==
    [][ChunkHandled =>
          \A i \in DOMAIN calls' :
              ~(calls'[i][1] = "onerror" /\ calls'[i][2] \in InboundFailures)]_vars

\* C26 as stated: a message the validator accepts carries the version tag
\* "2.0" and has at least one of the fields method, result and error.
C26_AcceptedIsRequestOrResponse ==
    roundTrip.stage \in {"wire", "decoded"} =>
        /\ roundTrip.message.jsonrpc = String("2.0")
        /\ \E f \in {"method", "result", "error"} :
               roundTrip.message[f] # Undefined

\* C27: a chunk within the size limit that finds a token takes exactly
\* one, whether its handling then succeeds, fails in decoding or schema
\* validation, or fails in the onmessage callback; one that finds none is
\* refused.  Hence, with no time elapsed since construction, the chunk that
\* follows MAX_REQUESTS_PER_MINUTE admitted ones fails with
\* RateLimitExceeded, whatever became of those.
C27_TokenNeverRefunded ==
    [][(ChunkHandled /\ last'.length <= MAX_MESSAGE_SIZE) =>
          /\ IF Refilled(rateLimiter, now) >= OneToken
             THEN /\ rateLimiter'.tokens = Refilled(rateLimiter, now) - OneToken
                  /\ Len(admitted') = Len(admitted) + 1
                  /\ last'.results[1] \in
                         {"ok", "InvalidFormat:SyntaxError",
                          "InvalidFormat:ZodError", "InvalidFormat:callback"}
             ELSE last'.results = <<"RateLimitExceeded">>
          /\ (now = 0 /\ Len(admitted) = MAX_REQUESTS_PER_MINUTE) =>
                 last'.results = <<"RateLimitExceeded">>]_vars

\* At the instant of construction, MAX_REQUESTS_PER_MINUTE chunks were
\* admitted and none of them was enqueued or dispatched, and the chunk
\* after them was refused.
C27_Witness ==
    /\ now = 0
    /\ "onmessage" \in callbacks
    /\ received = MAX_REQUESTS_PER_MINUTE + 1
    /\ Len(admitted) = MAX_REQUESTS_PER_MINUTE
    /\ dispatched = <<>>
    /\ messageQueue = <<>>
    /\ last.results = <<"RateLimitExceeded">>

\* C28: a send() that fails (schema, not connected or oversize) invokes
\* onerror, when one is set, exactly once, with the error its caller is
\* given, and invokes nothing else; a send() that succeeds invokes no
\* callback.
C28_SendReportsFailureOnce ==
    [][\A message \in Messages, length \in Lengths :
          send(message, length) =>
              LET error == last'.results[1] IN
              IF /\ message.jsonrpc = "2.0"
                 /\ connectionActive
                 /\ length <= MAX_MESSAGE_SIZE
              THEN error = "ok" /\ calls' = <<>>
              ELSE /\ error \in {"ZodError", "NotConnected", "MessageTooLarge"}
                   /\ calls' = IF "onerror" \in callbacks
                               THEN <<<<"onerror", error>>>> ELSE <<>>]_vars

\* An oversize send() on an Open transport gave its error to onerror once.
C28_Witness ==
    /\ last.op = "send"
    /\ last.open
    /\ last.length = MAX_MESSAGE_SIZE + 1
    /\ last.results = <<"MessageTooLarge">>
    /\ calls = <<<<"onerror", "MessageTooLarge">>>>
    /\ written = <<>>

\* C29: lastHealthCheck is the time of construction until the first tick
\* and the time of the latest tick after it: a new transport holds the
\* time of its construction, no step but a tick changes it (start(), the
\* chunks and send() included), and every tick sets it to the current
\* time.  A tick fails (onerror, then onclose) exactly when more than
\* CONNECTION_TIMEOUT has passed since that time.
C29_LastHealthCheck ==
    [][/\ last.op = "new" => lastHealthCheck = 0
       /\ IF healthCheck
          THEN /\ lastHealthCheck' = now
               /\ last'.results =
                      <<IF now - lastHealthCheck > CONNECTION_TIMEOUT
                        THEN "HealthCheckFailed" ELSE "ok">>
               /\ calls' =
                      IF now - lastHealthCheck > CONNECTION_TIMEOUT
                      THEN (IF "onerror" \in callbacks
                            THEN <<<<"onerror", "HealthCheckFailed">>>> ELSE <<>>)
                           \o (IF "onclose" \in callbacks
                               THEN <<<<"onclose", "">>>> ELSE <<>>)
                      ELSE <<>>
          ELSE UNCHANGED lastHealthCheck]_vars

\* The first tick after a start() made more than CONNECTION_TIMEOUT after
\* construction failed, although a chunk had been dispatched at that very
\* time; the tick after it, at the same time, did not fail.
C29_Witness ==
    /\ last.op = "healthCheck"
    /\ last.results = <<"ok">>
    /\ ~last.open
    /\ dataListeners = 1
    /\ lastHealthCheck = now
    /\ now = CONNECTION_TIMEOUT + 1
    /\ admitted = <<now>>
    /\ dispatched = <<1>>
    /\ stdinEnded = FALSE

\* C30: makeRequest ends, by a return or a throw, whatever the server
\* answers, after at most MAX_RETRIES + 1 fetches: attempt number n is made
\* with retryCount = n - 1 after n - 1 failures, every failure with
\* retryCount < MAX_RETRIES is retried, and only the failure of attempt
\* MAX_RETRIES + 1 is thrown.
C30_MakeRequestTerminates ==
    /\ [](LET attempts == Len(request.outcomes) IN
          /\ attempts <= MAX_RETRIES + 1
          /\ request.state = "fetching" => request.retryCount = attempts
          /\ request.state = "waiting" =>
                 /\ request.retryCount = attempts - 1
                 /\ request.retryCount < MAX_RETRIES
          /\ request.state # "returned" =>
                 \A i \in 1..attempts : request.outcomes[i] # "success"
          /\ request.state = "returned" =>
                 request.outcomes[attempts] = "success"
          /\ request.state = "thrown" => attempts = MAX_RETRIES + 1)
    /\ (request.state \in {"fetching", "waiting"}
            ~> request.state \in {"returned", "thrown"})

\* The fourth attempt was answered with 429 after three failures of other
\* kinds, and its error was thrown to the caller.
C30_Witness ==
    /\ request.state = "thrown"
    /\ request.retryCount = MAX_RETRIES
    /\ request.outcomes = <<"429", "httpError", "networkError", "429">>

====
